---- MODULE Spec2Model ----
(***************************************************************************)
(* rustworld: the artificial-life engine of src/src/simulation.rs and      *)
(* src/src/neural_network.rs as a state machine.                           *)
(*                                                                         *)
(* The state is the World (width, height, tiles, creatures, current_tick,  *)
(* settings) plus the position of World::tick inside its four phases.      *)
(* Every helper of the engine is an operator over a world record           *)
(*   [tiles, creatures, panicked]                                          *)
(* and keeps the name it has in the source.                                *)
(***************************************************************************)
EXTENDS Integers, FiniteSets, Sequences, TLC

VARIABLES
    width,          \* World.width
    height,         \* World.height
    border,         \* the border tile handed to World::new
    tiles,          \* World.tiles, row-major, index 0 .. width*height-1
    creatures,      \* World.creatures: Position -> Creature, occupied cells only
    current_tick,   \* World.current_tick
    settings,       \* World.settings
    pc,             \* where World::tick stands: idle/decide/apply/spawn/food/panic
    todo,           \* decide phase: creatures par_iter has not visited yet
    actions,        \* the collected (position, action) pairs not applied yet
    spawn_left,     \* spawn phase: attempts still to make
    food_left,      \* food phase: attempts still to make
    calls_left,     \* tick() calls the host loop will still make
    last,           \* the pair apply_action handled last, with the creature before it
    snapshot,       \* the occupancy map as tick() found it (kept through the apply phase)
    decided,        \* every pair the decide phase collected (kept through the apply phase)
    eval,           \* a brain on its own: NeuralNetwork::randomize, then one NeuralTick
    cmp,            \* two Colors on their own and what comparing them returns
    walk            \* a facing on its own: rotated, then a relative direction resolved

vars == <<width, height, border, tiles, creatures, current_tick, settings, pc,
          todo, actions, spawn_left, food_left, calls_left, last, snapshot, decided,
          eval, cmp, walk>>

----------------------------------------------------------------------------
(* Bounds of the exploration *)

\* tick() calls the host makes on a freshly constructed World
MaxTick == 3
\* random spawns are explored as successful placements only below this population
MaxCreatures == 1
\* tick() calls the host makes on a World picked up in mid-run
MidCalls == 1
\* 1.0 is represented by FloatScale; a Random neuron draws 0 .. FloatScale-1
FloatScale == 2
\* the random numbers NeuralNetwork::randomize consumes repeat with this period
StreamLen == 3
\* calls of itself NeuralNetwork::randomize is followed through
RestartBound == 2
\* Rotate actions applied in a row to one facing
MaxTurns == 4
\* side of the square of positions relative directions are resolved from
LookGrid == 3

----------------------------------------------------------------------------
(* Program constants *)

INITIAL_CREATURE_ENERGY == 100
NEURON_COUNT == 16
MIN_GENERATED_NEURONS == 6
CONNECTION_COUNT == 16
EAT_ENERGY == 50
U16_MAX == 65535

CardinalDirection == {"North", "East", "South", "West"}
Location == {"InFront", "Left", "Right", "Behind"}
Rotation == {"Clockwise", "CounterClockwise"}

----------------------------------------------------------------------------
(* Position *)

Pos(x, y) == [x |-> x, y |-> y]

saturating_sub(a, b) == IF a >= b THEN a - b ELSE 0

\* saturating_add saturates at usize::MAX, far beyond any grid explored here
saturating_add(a, b) == a + b

north(p, amount) == [x |-> p.x, y |-> saturating_sub(p.y, amount)]
south(p, amount) == [x |-> p.x, y |-> saturating_add(p.y, amount)]
east(p, amount) == [x |-> saturating_add(p.x, amount), y |-> p.y]
west(p, amount) == [x |-> saturating_sub(p.x, amount), y |-> p.y]

cardinal(p, direction, amount) ==
    CASE direction = "North" -> north(p, amount)
      [] direction = "South" -> south(p, amount)
      [] direction = "East" -> east(p, amount)
      [] direction = "West" -> west(p, amount)

\* every value Position::randomize(width, height) can return
Position_randomize(w, h) == {Pos(x, y) : x \in 0 .. w - 1, y \in 0 .. h - 1}

----------------------------------------------------------------------------
(* Tile and Color *)

Lava == [kind |-> "Lava", food_1 |-> FALSE]
Ground(food) == [kind |-> "Ground", food_1 |-> food]

\* Tile::default() / AccessableTileData::default()
Tile_default == Ground(TRUE)

can_contain_creature(tile) == tile.kind = "Ground"

Tile_color(tile) ==
    IF tile.kind = "Ground"
    THEN IF tile.food_1 THEN <<0, 255, 0>> ELSE <<0, 0, 0>>
    ELSE <<255, 128, 0>>

\* partial_cmp with >= in place of > on every channel
Color_partial_cmp_non_strict(a, b) ==
    IF a[1] >= b[1] /\ a[2] >= b[2] /\ a[3] >= b[3] THEN "Greater" ELSE "None"

\* impl PartialOrd for Color: Some(Greater) iff every channel is strictly greater
Color_partial_cmp(a, b) ==
    IF a[1] > b[1] /\ a[2] > b[2] /\ a[3] > b[3] THEN "Greater" ELSE "None"

\* a >= b as derived from partial_cmp: Some(Greater) or Some(Equal)
Color_ge(a, b) == Color_partial_cmp(a, b) \in {"Greater", "Equal"}

----------------------------------------------------------------------------
(* CardinalDirection and Location *)

\* rotate that turns clockwise whatever the Rotation
rotate_always_clockwise(direction, rotation) ==
    CASE direction = "North" -> "East"
      [] direction = "East" -> "South"
      [] direction = "South" -> "West"
      [] direction = "West" -> "North"

rotate(direction, rotation) ==
    IF rotation = "Clockwise"
    THEN CASE direction = "North" -> "East"
           [] direction = "East" -> "South"
           [] direction = "South" -> "West"
           [] direction = "West" -> "North"
    ELSE CASE direction = "North" -> "West"
           [] direction = "East" -> "North"
           [] direction = "South" -> "East"
           [] direction = "West" -> "South"

to_cardinal(location, look_direction) ==
    CASE location = "InFront" -> look_direction
      [] location = "Left" ->
            (CASE look_direction = "North" -> "West"
               [] look_direction = "West" -> "South"
               [] look_direction = "South" -> "East"
               [] look_direction = "East" -> "North")
      [] location = "Right" ->
            (CASE look_direction = "North" -> "East"
               [] look_direction = "East" -> "South"
               [] look_direction = "South" -> "West"
               [] look_direction = "West" -> "North")
      [] location = "Behind" ->
            (CASE look_direction = "North" -> "South"
               [] look_direction = "South" -> "North"
               [] look_direction = "West" -> "East"
               [] look_direction = "East" -> "West")

----------------------------------------------------------------------------
(* Action *)

Act(type, arg) == [type |-> type, arg |-> arg]
Idle == Act("Idle", "None")
Eat == Act("Eat", "None")
Move(location) == Act("Move", location)
Rotate(rotation) == Act("Rotate", rotation)
CreateMembrane(location) == Act("CreateMembrane", location)
CopyDna(location) == Act("CopyDna", location)

\* energy_cost with every action as cheap as Idle
energy_cost_flat(action) == 1

energy_cost(action) ==
    CASE action.type = "Idle" -> 1
      [] action.type = "Move" -> 3
      [] action.type = "Rotate" -> 2
      [] action.type = "Eat" -> 2
      [] action.type = "CreateMembrane" -> INITIAL_CREATURE_ENERGY + 5
      [] action.type = "CopyDna" -> 10

----------------------------------------------------------------------------
(* Creature *)

\* Option<Arc<NeuralNetwork>>::None; a Some(..) is the index of the network
NoBrain == 0

\* Creature::new that forgets the tick it is given
Creature_new_born_at_zero(born, rotation, brain) ==
    [born |-> 0, energy |-> INITIAL_CREATURE_ENERGY, rotation |-> rotation,
     brain |-> brain, offspring |-> 0]

Creature_new(born, rotation, brain) ==
    [born |-> born, energy |-> INITIAL_CREATURE_ENERGY, rotation |-> rotation,
     brain |-> brain, offspring |-> 0]

relative_position(creature, position, location) ==
    cardinal(position, to_cardinal(location, creature.rotation), 1)

----------------------------------------------------------------------------
(* NeuralNetwork *)

\* Neuron::Input(InputNeuron) / Neuron::Output(Action), as records of one shape
Input(itype, location, color) ==
    [kind |-> "Input", itype |-> itype, location |-> location, color |-> color,
     action |-> Idle]
Output(action) ==
    [kind |-> "Output", itype |-> "None", location |-> "None", color |-> <<0, 0, 0>>,
     action |-> action]

AlwaysActive == Input("AlwaysActive", "None", <<0, 0, 0>>)
Random == Input("Random", "None", <<0, 0, 0>>)
Feeler(location) == Input("Feeler", location, <<0, 0, 0>>)
Eye(location, color) == Input("Eye", location, color)

\* swapped in the source: has_output is true of Input neurons, has_input of Output neurons
has_output(neuron) == neuron.kind = "Input"
has_input(neuron) == neuron.kind = "Output"

Conn(source, destination) == [source |-> source, destination |-> destination]

\* The networks NeuralNetwork::randomize is explored with.  Each is a value
\* randomize can return: 6..16 neurons, and every connection has
\* source < (number of has_input neurons) and destination < (number of
\* has_output neurons), the two ranges randomize draws them from.
BrainPool == <<
    \* always Move(InFront)
    [neurons |-> <<Output(Move("InFront")), AlwaysActive, Output(Idle),
                   Output(Idle), Output(Idle), Output(Idle)>>,
     connections |-> <<Conn(1, 0)>>],
    \* Eat, CreateMembrane(Behind) or Idle, by the two random draws
    [neurons |-> <<Output(Eat), Output(CreateMembrane("Behind")), Random,
                   Random, Output(Idle), Output(Idle)>>,
     connections |-> <<Conn(2, 0), Conn(3, 1)>>],
    \* CopyDna(Right) when a creature is felt on the right, else Move(Left)
    [neurons |-> <<Output(CopyDna("Right")), Output(Move("Left")), Feeler("Right"),
                   AlwaysActive, Output(Idle), Output(Idle)>>,
     connections |-> <<Conn(2, 0), Conn(3, 1)>>],
    \* Rotate(CounterClockwise) on what the eye sees, Rotate(Clockwise) on a random draw
    [neurons |-> <<Output(Rotate("CounterClockwise")), Output(Rotate("Clockwise")),
                   Eye("None", <<0, 0, 0>>), Random, Output(Idle), Output(Idle)>>,
     connections |-> <<Conn(2, 0), Conn(3, 1)>>]
>>

BrainIds == 1 .. Len(BrainPool)

\* randomize has not returned a network
NoNet == [neurons |-> <<>>, connections |-> <<>>]

\* The k-th number fastrand hands out (k counts from 0), reduced to 0 .. n-1:
\* a draw fastrand::u8(0..n), fastrand::usize(lo..=hi) being lo + a draw of
\* hi - lo + 1.  The stream rng is read round and round.
fastrand(rng, k, n) == rng[(k % Len(rng)) + 1] % n

Location_randomize(v) ==
    CASE v = 0 -> "InFront" [] v = 1 -> "Left" [] v = 2 -> "Right" [] OTHER -> "Behind"

\* fastrand::bool(): true is Clockwise
Rotation_randomize(v) == IF v = 1 THEN "Clockwise" ELSE "CounterClockwise"

\* the Option<Location> of an Eye: 4 is None
Eye_location(v) ==
    CASE v = 0 -> "InFront" [] v = 1 -> "Left" [] v = 2 -> "Right"
      [] v = 3 -> "Behind" [] OTHER -> "None"

\* Color::randomize: three draws of fastrand::u8(0..255)
Color_randomize(rng, k) == <<fastrand(rng, k, 255), fastrand(rng, k + 1, 255), fastrand(rng, k + 2, 255)>>

\* Neuron::randomize from draw k on: the neuron and the index of the next draw
Neuron_randomize(rng, k) ==
    LET neuron_type == fastrand(rng, k, 10)
        location == Location_randomize(fastrand(rng, k + 1, 4))
    IN CASE neuron_type = 0 -> [neuron |-> AlwaysActive, k |-> k + 1]
         [] neuron_type = 1 -> [neuron |-> Random, k |-> k + 1]
         [] neuron_type = 2 -> [neuron |-> Feeler(location), k |-> k + 2]
         [] neuron_type = 3 ->
               [neuron |-> Eye(Eye_location(fastrand(rng, k + 1, 5)),
                               Color_randomize(rng, k + 2)),
                k |-> k + 5]
         [] neuron_type = 4 -> [neuron |-> Output(Idle), k |-> k + 1]
         [] neuron_type = 5 -> [neuron |-> Output(Eat), k |-> k + 1]
         [] neuron_type = 6 -> [neuron |-> Output(Move(location)), k |-> k + 2]
         [] neuron_type = 7 ->
               [neuron |-> Output(Rotate(Rotation_randomize(fastrand(rng, k + 1, 2)))),
                k |-> k + 2]
         [] neuron_type = 8 -> [neuron |-> Output(CreateMembrane(location)), k |-> k + 2]
         [] neuron_type = 9 -> [neuron |-> Output(CopyDna(location)), k |-> k + 2]

RECURSIVE push_neurons(_, _, _, _)
\* the loop `for _ in 0..neuron_count`: n neurons are still to be pushed
push_neurons(rng, k, n, neurons) ==
    IF n = 0 THEN [neurons |-> neurons, k |-> k]
    ELSE LET r == Neuron_randomize(rng, k)
         IN push_neurons(rng, r.k, n - 1, Append(neurons, r.neuron))

RECURSIVE indices_where_unfiltered(_, _, _)
\* enumerate().collect() without the filter: every index passes either test
indices_where_unfiltered(neurons, i, test) ==
    IF i >= Len(neurons) THEN <<>>
    ELSE <<i>> \o indices_where_unfiltered(neurons, i + 1, test)

RECURSIVE indices_where(_, _, _)
\* enumerate().filter_map(..).collect(): the 0-based indices i, from index i
\* on, of the neurons that pass the test ("has_input" or "has_output")
indices_where(neurons, i, test) ==
    IF i >= Len(neurons) THEN <<>>
    ELSE LET passes == IF test = "has_input" THEN has_input(neurons[i + 1])
                       ELSE has_output(neurons[i + 1])
         IN (IF passes THEN <<i>> ELSE <<>>) \o indices_where(neurons, i + 1, test)

Min(a, b) == IF a <= b THEN a ELSE b

RECURSIVE insert_connections_as_list(_, _, _, _, _, _)
\* the connection loop pushing onto a list instead of inserting into a HashSet
insert_connections_as_list(rng, k, tries, input_neurons, output_neurons, connections) ==
    IF tries = 0 THEN [connections |-> connections, k |-> k, skipped |-> 0]
    ELSE LET source == fastrand(rng, k, Len(input_neurons))
             destination == fastrand(rng, k + 1, Len(output_neurons))
         IN insert_connections_as_list(rng, k + 2, tries - 1, input_neurons, output_neurons,
                                       Append(connections, Conn(source, destination)))

RECURSIVE insert_connections(_, _, _, _, _, _)
\* the loop `for _ in 0..connection_generation_tries`; connections is the
\* HashSet, kept as the list of its distinct elements; skipped counts the
\* iterations that took the `continue`
insert_connections(rng, k, tries, input_neurons, output_neurons, connections) ==
    IF tries = 0 THEN [connections |-> connections, k |-> k, skipped |-> 0]
    ELSE LET source == fastrand(rng, k, Len(input_neurons))
             destination == fastrand(rng, k + 1, Len(output_neurons))
             c == Conn(source, destination)
         IN IF input_neurons[source + 1] = output_neurons[destination + 1]
            THEN [insert_connections(rng, k + 2, tries - 1, input_neurons,
                                     output_neurons, connections)
                     EXCEPT !.skipped = @ + 1]
            ELSE insert_connections(rng, k + 2, tries - 1, input_neurons, output_neurons,
                                    IF \E j \in 1 .. Len(connections) : connections[j] = c
                                    THEN connections
                                    ELSE Append(connections, c))

Reverse(seq) == [j \in 1 .. Len(seq) |-> seq[Len(seq) + 1 - j]]

\* the orders connections.into_iter().collect() is explored with: a HashSet
\* iterates in an order of its own
iteration_orders(connections) == {connections, Reverse(connections)}

RECURSIVE randomize(_, _, _)
\* NeuralNetwork::randomize from draw k on, with the connections in the order
\* of insertion, the number of iterations its connection loop made and how
\* many of them were skipped; restarts is the number of times it may still
\* call itself before the exploration gives up (NoNet)
randomize(rng, k, restarts) ==
    LET neuron_count ==
            MIN_GENERATED_NEURONS
            + fastrand(rng, k, NEURON_COUNT - MIN_GENERATED_NEURONS + 1)
        pushed == push_neurons(rng, k + 1, neuron_count, <<>>)
        neurons == pushed.neurons
        input_neurons == indices_where(neurons, 0, "has_input")
        output_neurons == indices_where(neurons, 0, "has_output")
    IN IF output_neurons = <<>> \/ input_neurons = <<>>
       THEN IF restarts = 0 THEN NoNet ELSE randomize(rng, pushed.k, restarts - 1)
       ELSE LET min_tries == Len(output_neurons)
                max_tries == Min(CONNECTION_COUNT, Len(output_neurons) * 2)
                connection_generation_tries ==
                    min_tries + fastrand(rng, pushed.k, max_tries - min_tries + 1)
                inserted == insert_connections(rng, pushed.k + 1,
                                               connection_generation_tries,
                                               input_neurons, output_neurons, <<>>)
            IN [neurons |-> neurons, connections |-> inserted.connections,
                tries |-> connection_generation_tries, skipped |-> inserted.skipped]

----------------------------------------------------------------------------
(* World: read primitives *)

check_bounds(position) == position.x < width /\ position.y < height

NoTile == [kind |-> "None", food_1 |-> FALSE]

\* Option<&Tile>: NoTile is None
get_tile(tl, position) ==
    IF check_bounds(position) THEN tl[position.y * width + position.x] ELSE NoTile

----------------------------------------------------------------------------
(* NeuralTick *)

\* the indices (1-based) of the Random neurons of a network: one draw each per seed
RandomIdx(net) == {i \in 1 .. Len(net.neurons) : net.neurons[i].itype = "Random"}

RandomDraws(net) == [RandomIdx(net) -> 0 .. FloatScale - 1]

\* initial_output with the relative directions resolved as if the creature
\* always faced North
initial_output_ignores_facing(neuron, me, position, cs, tl, draw) ==
    IF neuron.kind = "Input"
    THEN CASE neuron.itype = "AlwaysActive" -> FloatScale
           [] neuron.itype = "Random" -> draw
           [] neuron.itype = "Feeler" ->
                IF cardinal(position, to_cardinal(neuron.location, "North"), 1) \in DOMAIN cs
                THEN FloatScale ELSE 0
           [] neuron.itype = "Eye" ->
                LET look_position ==
                        IF neuron.location # "None"
                        THEN cardinal(position, to_cardinal(neuron.location, "North"), 1)
                        ELSE position
                    tile == get_tile(tl, look_position)
                IN IF tile # NoTile
                   THEN IF Color_ge(Tile_color(tile), neuron.color) THEN FloatScale ELSE 0
                   ELSE 0
    ELSE 0

initial_output(neuron, me, position, cs, tl, draw) ==
    IF neuron.kind = "Input"
    THEN CASE neuron.itype = "AlwaysActive" -> FloatScale
           [] neuron.itype = "Random" -> draw
           [] neuron.itype = "Feeler" ->
                IF relative_position(me, position, neuron.location) \in DOMAIN cs
                THEN FloatScale ELSE 0
           [] neuron.itype = "Eye" ->
                LET look_position ==
                        IF neuron.location # "None"
                        THEN relative_position(me, position, neuron.location)
                        ELSE position
                    tile == get_tile(tl, look_position)
                IN IF tile # NoTile
                   THEN IF Color_ge(Tile_color(tile), neuron.color) THEN FloatScale ELSE 0
                   ELSE 0
    ELSE 0

\* NeuralTick::seed: neuron_states, one NeuronValue per neuron
seed(net, me, position, cs, tl, rnd) ==
    [i \in 1 .. Len(net.neurons) |->
        [input |-> 0,
         output |-> initial_output(net.neurons[i], me, position, cs, tl,
                                   IF i \in DOMAIN rnd THEN rnd[i] ELSE 0)]]

RECURSIVE propagate_overwrites(_, _)
\* the first loop of calculate_action with `=` in place of `+=`
propagate_overwrites(states, conns) ==
    IF conns = <<>> THEN states
    ELSE LET c == Head(conns)
             source_value == states[c.source + 1].output
         IN propagate_overwrites([states EXCEPT ![c.destination + 1].input = source_value],
                                 Tail(conns))

RECURSIVE propagate(_, _)
\* the first loop of calculate_action: every connection, in the order the
\* ArrayVec holds them, adds its source's output to its destination's input
\* (indices are used as they stand, 0-based)
propagate(states, conns) ==
    IF conns = <<>> THEN states
    ELSE LET c == Head(conns)
             source_value == states[c.source + 1].output
         IN propagate([states EXCEPT ![c.destination + 1].input = @ + source_value],
                      Tail(conns))

RECURSIVE pick_action_last_wins(_, _, _, _, _)
\* the second loop of calculate_action with `>=` in place of `>`
pick_action_last_wins(states, net, i, action, action_impulse) ==
    IF i > Len(states) THEN action
    ELSE IF net.neurons[i].kind = "Output" /\ states[i].input >= action_impulse
         THEN pick_action_last_wins(states, net, i + 1, net.neurons[i].action,
                                    states[i].input)
         ELSE pick_action_last_wins(states, net, i + 1, action, action_impulse)

RECURSIVE pick_action(_, _, _, _, _)
\* the second loop of calculate_action, from neuron i (1-based) on
pick_action(states, net, i, action, action_impulse) ==
    IF i > Len(states) THEN action
    ELSE IF net.neurons[i].kind = "Output" /\ states[i].input > action_impulse
         THEN pick_action(states, net, i + 1, net.neurons[i].action, states[i].input)
         ELSE pick_action(states, net, i + 1, action, action_impulse)

calculate_action(states, net) ==
    pick_action(propagate(states, net.connections), net, 1, Idle, 0)

\* every action the brain of the creature at position can decide on this world
decisions(position, cs, tl) ==
    LET me == cs[position]
        net == BrainPool[me.brain]
    IN {calculate_action(seed(net, me, position, cs, tl, rnd), net) :
            rnd \in RandomDraws(net)}

----------------------------------------------------------------------------
(* World: the occupancy map *)

\* HashMap::remove / HashMap::insert on the occupancy map
Remove(cs, position) == [p \in DOMAIN cs \ {position} |-> cs[p]]
Insert(cs, position, creature) ==
    [p \in DOMAIN cs \cup {position} |-> IF p = position THEN creature ELSE cs[p]]

\* a failed expect(), an overlapping get_disjoint_mut or an overflow check: the
\* tick is aborted with the world as it stands
Panic(w) == [w EXCEPT !.panicked = TRUE]

\* kill_creature that leaves the entry in the map
kill_creature_keeps_entry(w, position) == w

kill_creature(w, position) == [w EXCEPT !.creatures = Remove(@, position)]

\* move_creature without the contains_key test: the mover replaces the occupant
move_creature_overwrites(w, old_position, new_position) ==
    IF old_position \in DOMAIN w.creatures /\ old_position # new_position
    THEN LET creature == w.creatures[old_position]
             removed == [w EXCEPT !.creatures = Remove(@, old_position)]
             tile == get_tile(w.tiles, new_position)
         IN IF tile = NoTile THEN Panic(removed)
            ELSE IF ~can_contain_creature(tile) THEN removed
            ELSE [removed EXCEPT !.creatures = Insert(@, new_position, creature)]
    ELSE w

\* move_creature that inserts at the new key without removing the old one
move_creature_keeps_old(w, old_position, new_position) ==
    IF new_position \in DOMAIN w.creatures THEN w
    ELSE IF old_position \in DOMAIN w.creatures
         THEN LET tile == get_tile(w.tiles, new_position)
              IN IF tile = NoTile THEN Panic(w)
                 ELSE IF ~can_contain_creature(tile) THEN w
                 ELSE [w EXCEPT !.creatures =
                                    Insert(@, new_position, w.creatures[old_position])]
         ELSE w

move_creature(w, old_position, new_position) ==
    IF new_position \in DOMAIN w.creatures THEN w
    ELSE IF old_position \in DOMAIN w.creatures
         THEN LET creature == w.creatures[old_position]
                  removed == [w EXCEPT !.creatures = Remove(@, old_position)]
                  tile == get_tile(w.tiles, new_position)
              IN IF tile = NoTile THEN Panic(removed)
                 ELSE IF ~can_contain_creature(tile) THEN removed
                 ELSE [removed EXCEPT !.creatures = Insert(@, new_position, creature)]
         ELSE w

\* spawn_creature without the can_contain_creature test
spawn_creature_on_any_tile(w, position, creature) ==
    LET tile == get_tile(w.tiles, position)
    IN IF tile = NoTile THEN Panic(w)
       ELSE IF position \in DOMAIN w.creatures THEN w
       ELSE [w EXCEPT !.creatures = Insert(@, position, creature)]

\* spawn_creature with insert in place of entry().or_insert()
spawn_creature_replaces(w, position, creature) ==
    LET tile == get_tile(w.tiles, position)
    IN IF tile = NoTile THEN Panic(w)
       ELSE IF ~can_contain_creature(tile) THEN w
       ELSE [w EXCEPT !.creatures = Insert(@, position, creature)]

spawn_creature(w, position, creature) ==
    LET tile == get_tile(w.tiles, position)
    IN IF tile = NoTile THEN Panic(w)
       ELSE IF ~can_contain_creature(tile) THEN w
       ELSE IF position \in DOMAIN w.creatures THEN w
       ELSE [w EXCEPT !.creatures = Insert(@, position, creature)]

\* copy_dna with source and destination exchanged
copy_dna_reversed(w, old_position, new_position) ==
    IF old_position = new_position THEN Panic(w)
    ELSE IF old_position \in DOMAIN w.creatures /\ new_position \in DOMAIN w.creatures
         THEN [w EXCEPT !.creatures[old_position].brain = w.creatures[new_position].brain]
         ELSE w

\* get_disjoint_mut panics on overlapping keys and yields None for a missing key
copy_dna(w, old_position, new_position) ==
    IF old_position = new_position THEN Panic(w)
    ELSE IF old_position \in DOMAIN w.creatures /\ new_position \in DOMAIN w.creatures
         THEN [w EXCEPT !.creatures[new_position].brain = w.creatures[old_position].brain]
         ELSE w

\* regenerate_food that flips the flag instead of setting it
regenerate_food_toggles(w, position) ==
    LET i == position.x + position.y * width
    IN IF w.tiles[i].kind = "Ground" THEN [w EXCEPT !.tiles[i].food_1 = ~@] ELSE w

\* regenerate_food once the random position is drawn
regenerate_food(w, position) ==
    LET i == position.x + position.y * width
    IN IF w.tiles[i].kind = "Ground" THEN [w EXCEPT !.tiles[i].food_1 = TRUE] ELSE w

\* Action::Eat: `creature.energy += 50` on a u16 aborts the tick when overflow
\* checks are compiled in and wraps when they are not
eat(w, position) ==
    LET i == position.x + position.y * width
        energy == w.creatures[position].energy
    IN IF w.tiles[i].kind = "Ground" /\ w.tiles[i].food_1
       THEN LET eaten == [w EXCEPT !.tiles[i].food_1 = FALSE]
            IN IF energy + EAT_ENERGY <= U16_MAX
               THEN {[eaten EXCEPT !.creatures[position].energy = energy + EAT_ENERGY]}
               ELSE {Panic(eaten),
                     [eaten EXCEPT !.creatures[position].energy =
                                        (energy + EAT_ENERGY) % (U16_MAX + 1)]}
       ELSE {w}

\* every world apply_action(position, action) can leave behind
apply_action(w, position, action) ==
    IF position \notin DOMAIN w.creatures THEN {Panic(w)}
    ELSE LET energy_cost_ == energy_cost(action)
             before == w.creatures[position]
         IN IF before.energy >= energy_cost_
            THEN LET creature == [before EXCEPT !.energy = saturating_sub(@, energy_cost_)]
                     paid == [w EXCEPT !.creatures[position] = creature]
                 IN CASE action.type = "Idle" -> {paid}
                      [] action.type = "Eat" -> eat(paid, position)
                      [] action.type = "Move" ->
                            LET new_position ==
                                    relative_position(creature, position, action.arg)
                            IN IF check_bounds(new_position)
                               THEN {move_creature(paid, position, new_position)}
                               ELSE {paid}
                      [] action.type = "Rotate" ->
                            {[paid EXCEPT !.creatures[position].rotation =
                                              rotate(@, action.arg)]}
                      [] action.type = "CreateMembrane" ->
                            LET spawn_position ==
                                    relative_position(creature, position, action.arg)
                                rotation == to_cardinal(action.arg, creature.rotation)
                                counted == [paid EXCEPT
                                               !.creatures[position].offspring = @ + 1]
                                new_creature == Creature_new(current_tick, rotation, NoBrain)
                            IN {spawn_creature(counted, spawn_position, new_creature)}
                      [] action.type = "CopyDna" ->
                            LET copy_position ==
                                    relative_position(creature, position, action.arg)
                            IN {copy_dna(paid, position, copy_position)}
            ELSE {kill_creature(w, position)}

----------------------------------------------------------------------------
(* World::new *)

\* World::new with the second loop (the left and right columns) left out
World_new_tiles_rows_only(w, h, border_tile) ==
    [i \in 0 .. w * h - 1 |->
        IF \E x \in 0 .. w - 1 : i = x \/ i = w * (h - 1) + x
        THEN border_tile
        ELSE Tile_default]

\* the tile array World::new builds: defaults, then the border ring stamped
World_new_tiles(w, h, border_tile) ==
    [i \in 0 .. w * h - 1 |->
        IF \/ \E x \in 0 .. w - 1 : i = x \/ i = w * (h - 1) + x
           \/ \E y \in 1 .. h - 2 : i = y * w \/ i = y * w + w - 1
        THEN border_tile
        ELSE Tile_default]

\* the calls World::new(width, height, border, settings) explored
WorldConfigs ==
    {[width |-> 3, height |-> 1, border |-> Ground(TRUE)],
     [width |-> 3, height |-> 3, border |-> Lava]}

SettingsExplored ==
    {[food_regen_rate |-> 1, creature_generation_rate |-> 1],
     [food_regen_rate |-> 2, creature_generation_rate |-> 2]}

NoLast == [position |-> Pos(0, 0), action |-> Idle, present |-> FALSE,
           before |-> Creature_new(0, "North", NoBrain)]

\* HashMap::new()
NoCreatures == [p \in {} |-> NoLast.before]

\* no brain and no colors are being looked at on their own
NoEval == [phase |-> "none", rng |-> <<>>, net |-> NoNet, tries |-> 0, skipped |-> 0,
           me |-> NoLast.before, position |-> Pos(0, 0), creatures |-> NoCreatures,
           tiles |-> <<>>, neuron_states |-> <<>>, action |-> Idle]
\* no facing under study
NoWalk == [phase |-> "none", position |-> Pos(0, 0), facings |-> <<>>, turned |-> <<>>,
           location |-> "None", look_direction |-> "None", cell |-> Pos(0, 0)]

NoCmp == [phase |-> "none", a |-> <<0, 0, 0>>, b |-> <<0, 0, 0>>,
          partial_cmp |-> "None", ge |-> FALSE]

\* the world the operators work on
TheWorld == [tiles |-> tiles, creatures |-> creatures, panicked |-> FALSE]

Init ==
    /\ \E cfg \in WorldConfigs :
          /\ width = cfg.width
          /\ height = cfg.height
          /\ border = cfg.border
          /\ tiles = World_new_tiles(cfg.width, cfg.height, cfg.border)
    /\ settings \in SettingsExplored
    /\ creatures = NoCreatures
    /\ current_tick = 0
    /\ pc = "idle"
    /\ todo = {}
    /\ actions = {}
    /\ spawn_left = 0
    /\ food_left = 0
    /\ calls_left = MaxTick
    /\ last = NoLast
    /\ snapshot = NoCreatures
    /\ decided = {}
    /\ eval = NoEval
    /\ cmp = NoCmp
    /\ walk = NoWalk

----------------------------------------------------------------------------
(* World::tick *)

\* tick() without `self.current_tick += 1`
Tick_keeps_counter ==
    /\ pc = "idle"
    /\ calls_left > 0
    /\ calls_left' = calls_left - 1
    /\ pc' = "decide"
    /\ todo' = DOMAIN creatures
    /\ actions' = {}
    /\ last' = NoLast
    /\ snapshot' = creatures
    /\ decided' = {}
    /\ UNCHANGED <<eval, cmp, walk>>
    /\ UNCHANGED <<width, height, border, tiles, creatures, current_tick, settings,
                   spawn_left, food_left>>

\* tick() is called: the counter is incremented and the decide phase begins
Tick ==
    /\ pc = "idle"
    /\ calls_left > 0
    /\ calls_left' = calls_left - 1
    /\ current_tick' = current_tick + 1
    /\ pc' = "decide"
    /\ todo' = DOMAIN creatures
    /\ actions' = {}
    /\ last' = NoLast
    /\ snapshot' = creatures
    /\ decided' = {}
    /\ UNCHANGED <<eval, cmp, walk>>
    /\ UNCHANGED <<width, height, border, tiles, creatures, settings, spawn_left, food_left>>

\* a decide phase that applies each decision as soon as it is computed
Decide_and_apply ==
    /\ pc = "decide"
    /\ \E position \in todo :
          /\ todo' = todo \ {position}
          /\ position \in DOMAIN creatures
          /\ creatures[position].brain # NoBrain
          /\ \E action \in decisions(position, creatures, tiles) :
                /\ actions' = actions \cup {[position |-> position, action |-> action]}
                /\ \E w \in apply_action(TheWorld, position, action) :
                      /\ tiles' = w.tiles
                      /\ creatures' = w.creatures
    /\ UNCHANGED <<eval, cmp, walk>>
    /\ UNCHANGED <<width, height, border, current_tick, settings, pc,
                   spawn_left, food_left, calls_left, last, snapshot, decided>>

\* the filter_map closure of the decide phase runs for one creature
Decide ==
    /\ pc = "decide"
    /\ \E position \in todo :
          /\ todo' = todo \ {position}
          /\ \E action \in (IF creatures[position].brain # NoBrain
                            THEN decisions(position, creatures, tiles)
                            ELSE {Idle}) :
                actions' = IF creatures[position].brain # NoBrain
                           THEN actions \cup {[position |-> position, action |-> action]}
                           ELSE actions
    /\ UNCHANGED <<eval, cmp, walk>>
    /\ UNCHANGED <<width, height, border, tiles, creatures, current_tick, settings, pc,
                   spawn_left, food_left, calls_left, last, snapshot, decided>>

\* an apply loop that starts while decisions are still being computed
EndDecide_without_barrier ==
    /\ pc = "decide"
    /\ pc' = "apply"
    /\ decided' = actions
    /\ UNCHANGED <<eval, cmp, walk>>
    /\ UNCHANGED <<width, height, border, tiles, creatures, current_tick, settings,
                   todo, actions, spawn_left, food_left, calls_left, last, snapshot>>

\* collect_vec_list returns: every creature has been visited
EndDecide ==
    /\ pc = "decide"
    /\ todo = {}
    /\ pc' = "apply"
    /\ decided' = actions
    /\ UNCHANGED <<eval, cmp, walk>>
    /\ UNCHANGED <<width, height, border, tiles, creatures, current_tick, settings,
                   todo, actions, spawn_left, food_left, calls_left, last, snapshot>>

\* one iteration of the apply loop; the list comes from a HashMap, so any pair may be next
Apply ==
    /\ pc = "apply"
    /\ \E pa \in actions :
          /\ actions' = actions \ {pa}
          /\ last' = [position |-> pa.position, action |-> pa.action,
                      present |-> pa.position \in DOMAIN creatures,
                      before |-> IF pa.position \in DOMAIN creatures
                                 THEN creatures[pa.position] ELSE NoLast.before]
          /\ \E w \in apply_action(TheWorld, pa.position, pa.action) :
                /\ tiles' = w.tiles
                /\ creatures' = w.creatures
                /\ pc' = IF w.panicked THEN "panic" ELSE "apply"
    /\ UNCHANGED <<eval, cmp, walk>>
    /\ UNCHANGED <<width, height, border, current_tick, settings, todo, spawn_left,
                   food_left, calls_left, snapshot, decided>>

EndApply ==
    /\ pc = "apply"
    /\ actions = {}
    /\ pc' = "spawn"
    /\ spawn_left' = settings.creature_generation_rate
    /\ last' = NoLast
    /\ snapshot' = NoCreatures
    /\ decided' = {}
    /\ UNCHANGED <<eval, cmp, walk>>
    /\ UNCHANGED <<width, height, border, tiles, creatures, current_tick, settings,
                   todo, actions, food_left, calls_left>>

\* one of the creature_generation_rate attempts: the random draws, then spawn_creature
Spawn ==
    /\ pc = "spawn"
    /\ spawn_left > 0
    /\ spawn_left' = spawn_left - 1
    /\ \E position \in Position_randomize(width, height), rotation \in CardinalDirection,
          brain \in BrainIds :
          /\ \/ Cardinality(DOMAIN creatures) < MaxCreatures
             \/ position \in DOMAIN creatures
             \/ ~can_contain_creature(get_tile(tiles, position))
          /\ LET w == spawn_creature(TheWorld, position,
                                     Creature_new(current_tick, rotation, brain))
             IN /\ creatures' = w.creatures
                /\ pc' = IF w.panicked THEN "panic" ELSE "spawn"
    /\ UNCHANGED <<eval, cmp, walk>>
    /\ UNCHANGED <<width, height, border, tiles, current_tick, settings, todo, actions,
                   food_left, calls_left, last, snapshot, decided>>

EndSpawn ==
    /\ pc = "spawn"
    /\ spawn_left = 0
    /\ pc' = "food"
    /\ food_left' = settings.food_regen_rate
    /\ UNCHANGED <<eval, cmp, walk>>
    /\ UNCHANGED <<width, height, border, tiles, creatures, current_tick, settings,
                   todo, actions, spawn_left, calls_left, last, snapshot, decided>>

\* one of the food_regen_rate attempts
RegenerateFood ==
    /\ pc = "food"
    /\ food_left > 0
    /\ food_left' = food_left - 1
    /\ \E position \in Position_randomize(width, height) :
          tiles' = regenerate_food(TheWorld, position).tiles
    /\ UNCHANGED <<eval, cmp, walk>>
    /\ UNCHANGED <<width, height, border, creatures, current_tick, settings, pc, todo,
                   actions, spawn_left, calls_left, last, snapshot, decided>>

\* tick() returns
EndFood ==
    /\ pc = "food"
    /\ food_left = 0
    /\ pc' = "idle"
    /\ UNCHANGED <<eval, cmp, walk>>
    /\ UNCHANGED <<width, height, border, tiles, creatures, current_tick, settings,
                   todo, actions, spawn_left, food_left, calls_left, last, snapshot,
                   decided>>

Next ==
    \/ Tick
    \/ Decide
    \/ EndDecide
    \/ Apply
    \/ EndApply
    \/ Spawn
    \/ EndSpawn
    \/ RegenerateFood
    \/ EndFood

Spec == Init /\ [][Next]_vars

\* the host loop keeps calling tick() and a tick() that can take a step takes it
SpecLive == Init /\ [][Next]_vars /\ WF_vars(Next)

----------------------------------------------------------------------------
(* A World in mid-run *)

\* Energies a creature is picked up with.  Every value of the u16 range is
\* reachable: Idle costs 1 per tick, a fed Eat nets +48, a creature without a
\* brain keeps its energy, and CopyDna hands any brain to any creature.
MidEnergies == {1, 2, 3, 10, INITIAL_CREATURE_ENERGY + 5, U16_MAX - 35}

\* the tick the mid-run World is picked up at
MidTick == 2000

\* the creature whose action is looked at: any brain, any energy; also one
\* that has reproduced three times and can pay for a fourth
MidSubjects ==
    [born : {1}, energy : MidEnergies, rotation : CardinalDirection,
     brain : BrainIds, offspring : {0}]
    \cup [born : {1}, energy : {INITIAL_CREATURE_ENERGY + 5}, rotation : CardinalDirection,
          brain : {2}, offspring : {3}]

\* a neighbour: fresh energy, a mover (any facing) or the brainless child of a
\* CreateMembrane (whose facing nothing reads)
MidNeighbours ==
    [born : {1}, energy : {INITIAL_CREATURE_ENERGY}, rotation : CardinalDirection,
     brain : {1}, offspring : {0}]
    \cup {Creature_new(1, "North", NoBrain)}

\* the settings of the mid-run World
MidSettings == {[food_regen_rate |-> 1, creature_generation_rate |-> 1]}

\* the state between two tick() calls of a World that has run for MidTick ticks
InitMid ==
    /\ \E cfg \in WorldConfigs :
          /\ width = cfg.width
          /\ height = cfg.height
          /\ border = cfg.border
          /\ \E food \in BOOLEAN :
                tiles = [i \in 0 .. cfg.width * cfg.height - 1 |->
                            LET t == World_new_tiles(cfg.width, cfg.height, cfg.border)[i]
                            IN IF t.kind = "Ground" THEN Ground(food) ELSE t]
          /\ LET ground == {p \in Position_randomize(cfg.width, cfg.height) :
                               World_new_tiles(cfg.width, cfg.height, cfg.border)
                                   [p.y * cfg.width + p.x].kind = "Ground"}
             IN \E p \in ground, subject \in MidSubjects :
                   \/ creatures = [q \in {p} |-> subject]
                   \/ \E r \in ground \ {p}, neighbour \in MidNeighbours :
                         creatures = [q \in {p, r} |-> IF q = p THEN subject ELSE neighbour]
    /\ settings \in MidSettings
    /\ current_tick = MidTick
    /\ pc = "idle"
    /\ todo = {}
    /\ actions = {}
    /\ spawn_left = 0
    /\ food_left = 0
    /\ calls_left = MidCalls
    /\ last = NoLast
    /\ snapshot = NoCreatures
    /\ decided = {}
    /\ eval = NoEval
    /\ cmp = NoCmp
    /\ walk = NoWalk

SpecMid == InitMid /\ [][Next]_vars

----------------------------------------------------------------------------
(* A brain on its own: NeuralNetwork::randomize, NeuralTick::seed and
   NeuralTick::calculate_action on one creature of a small world *)

\* the streams of random numbers randomize is explored with; 0 .. 10 covers
\* every draw of up to 11 values (the neuron count) in full
Streams == [1 .. StreamLen -> 0 .. NEURON_COUNT - MIN_GENERATED_NEURONS]

\* the world around the brain: a 3x1 strip of Ground in which no tick runs
StillWorld ==
    /\ width = 3
    /\ height = 1
    /\ border = Ground(TRUE)
    /\ tiles = World_new_tiles(3, 1, Ground(TRUE))
    /\ settings \in MidSettings
    /\ creatures = NoCreatures
    /\ current_tick = 0
    /\ pc = "idle"
    /\ todo = {}
    /\ actions = {}
    /\ spawn_left = 0
    /\ food_left = 0
    /\ calls_left = 0
    /\ last = NoLast
    /\ snapshot = NoCreatures
    /\ decided = {}

world_vars == <<width, height, border, tiles, creatures, current_tick, settings, pc,
                todo, actions, spawn_left, food_left, calls_left, last, snapshot, decided>>

\* what seed is handed: the creature that carries the brain stands in the
\* middle of the strip, facing North or East, alone or with a creature on the
\* cell to its west; every tile has food, or only the eastern one has
SeedContexts ==
    {[me |-> Creature_new(1, facing, 1), position |-> Pos(1, 0),
      creatures |-> [q \in others \cup {Pos(1, 0)} |-> Creature_new(1, facing, 1)],
      tiles |-> [i \in 0 .. 2 |-> Ground(food[i + 1])]] :
        facing \in {"North", "East"},
        others \in {{}, {Pos(0, 0)}},
        food \in {<<TRUE, TRUE, TRUE>>, <<FALSE, FALSE, TRUE>>}}

InitBrain ==
    /\ StillWorld
    /\ \E rng \in Streams : eval = [NoEval EXCEPT !.phase = "start", !.rng = rng]
    /\ cmp = NoCmp
    /\ walk = NoWalk

\* NeuralNetwork::randomize returns (or is given up on); the connections come
\* out of the HashSet in one of its iteration orders
Randomize ==
    /\ eval.phase = "start"
    /\ LET net == randomize(eval.rng, 0, RestartBound)
       IN IF net = NoNet
          THEN eval' = [eval EXCEPT !.phase = "gave_up"]
          ELSE \E order \in iteration_orders(net.connections) :
                  eval' = [eval EXCEPT !.phase = "net",
                                       !.net = [neurons |-> net.neurons,
                                                connections |-> order],
                                       !.tries = net.tries,
                                       !.skipped = net.skipped]
    /\ UNCHANGED <<world_vars, cmp, walk>>

\* NeuralTick::seed; every Random neuron is explored with the same draw
Seed ==
    /\ eval.phase = "net"
    /\ \E ctx \in SeedContexts, v \in 0 .. FloatScale - 1 :
          eval' = [eval EXCEPT
                      !.phase = "seeded",
                      !.me = ctx.me,
                      !.position = ctx.position,
                      !.creatures = ctx.creatures,
                      !.tiles = ctx.tiles,
                      !.neuron_states =
                          seed(eval.net, ctx.me, ctx.position, ctx.creatures, ctx.tiles,
                               [i \in RandomIdx(eval.net) |-> v])]
    /\ UNCHANGED <<world_vars, cmp, walk>>

\* NeuralTick::calculate_action
CalculateAction ==
    /\ eval.phase = "seeded"
    /\ eval' = [eval EXCEPT !.phase = "decided",
                            !.action = calculate_action(eval.neuron_states, eval.net)]
    /\ UNCHANGED <<world_vars, cmp, walk>>

NextBrain ==
    \/ Randomize
    \/ Seed
    \/ CalculateAction

SpecBrain == InitBrain /\ [][NextBrain]_vars

----------------------------------------------------------------------------
(* Two Colors on their own *)

\* channel values explored: those of the tile colors (0, 128, 255) and of the
\* specification's example (5, 10)
ChannelsExplored == {0, 5, 10, 128, 255}

ColorsExplored == {<<r, g, b>> : r \in ChannelsExplored, g \in ChannelsExplored,
                                 b \in ChannelsExplored}

InitColor ==
    /\ StillWorld
    /\ eval = NoEval
    /\ walk = NoWalk
    /\ \E a \in ColorsExplored, b \in ColorsExplored :
          cmp = [NoCmp EXCEPT !.phase = "start", !.a = a, !.b = b]

\* a.partial_cmp(&b) and a >= b are evaluated
Compare ==
    /\ cmp.phase = "start"
    /\ cmp' = [cmp EXCEPT !.phase = "compared",
                          !.partial_cmp = Color_partial_cmp(cmp.a, cmp.b),
                          !.ge = Color_ge(cmp.a, cmp.b)]
    /\ UNCHANGED <<world_vars, eval, walk>>

NextColor == Compare

SpecColor == InitColor /\ [][NextColor]_vars

----------------------------------------------------------------------------
(* A facing on its own *)

\* a creature with any facing on any cell of a LookGrid x LookGrid square
InitFacing ==
    /\ StillWorld
    /\ eval = NoEval
    /\ cmp = NoCmp
    /\ \E position \in Position_randomize(LookGrid, LookGrid),
          rotation \in CardinalDirection :
          walk = [NoWalk EXCEPT !.phase = "turning", !.position = position,
                                !.facings = <<rotation>>]

\* Action::Rotate(rotation) as apply_action performs it on the creature:
\* creature.rotation.rotate(rotation)
RotateFacing ==
    /\ walk.phase = "turning"
    /\ Len(walk.turned) < MaxTurns
    /\ \E rotation \in Rotation :
          walk' = [walk EXCEPT
                      !.facings = Append(@, rotate(@[Len(@)], rotation)),
                      !.turned = Append(@, rotation)]
    /\ UNCHANGED <<world_vars, eval, cmp>>

\* location.to_cardinal(creature.rotation) and creature.relative_position
Look ==
    /\ walk.phase = "turning"
    /\ \E location \in Location :
          LET rotation == walk.facings[Len(walk.facings)]
              me == Creature_new(1, rotation, NoBrain)
          IN walk' = [walk EXCEPT
                         !.phase = "looked",
                         !.location = location,
                         !.look_direction = to_cardinal(location, rotation),
                         !.cell = relative_position(me, walk.position, location)]
    /\ UNCHANGED <<world_vars, eval, cmp>>

NextFacing == RotateFacing \/ Look

SpecFacing == InitFacing /\ [][NextFacing]_vars

----------------------------------------------------------------------------
(* Claims *)

\* the indices of the tiles of row 0, row height-1, column 0 and column width-1
BorderIndices ==
    {y * width + x : x \in {0, width - 1}, y \in 0 .. height - 1}
    \cup {y * width + x : x \in 0 .. width - 1, y \in {0, height - 1}}

GroundCount == Cardinality({i \in DOMAIN tiles : tiles[i].kind = "Ground"})

\* C1: in every state reachable from World::new by tick() calls, every key of
\* the occupancy map is inside the grid (x < width, y < height), lies on a
\* Ground tile and holds one creature, and there are at most as many creatures
\* as Ground tiles; the tile array has width*height entries.
C1_OccupancyOnGround ==
    /\ \A p \in DOMAIN creatures :
          /\ p.x \in 0 .. width - 1
          /\ p.y \in 0 .. height - 1
          /\ tiles[p.y * width + p.x].kind = "Ground"
    /\ Cardinality(DOMAIN creatures) <= GroundCount
    /\ DOMAIN tiles = 0 .. width * height - 1

\* C1 witness: a tick has returned with two creatures on the map
C1_Witness ==
    /\ pc = "idle"
    /\ current_tick >= 2
    /\ Cardinality(DOMAIN creatures) = 2

\* C6 as stated: every border tile equals the border tile passed to World::new
C6_BorderEqualsConfigured ==
    \A i \in BorderIndices : tiles[i] = border

\* C6 amended: every border tile keeps the kind of the border tile passed to
\* World::new; an Impassable border stays equal to it, a Ground border may
\* differ from it in its food flag only.
C6_BorderKeepsKind ==
    /\ BorderIndices \subseteq DOMAIN tiles
    /\ \A i \in BorderIndices :
          /\ tiles[i].kind = border.kind
          /\ border.kind = "Lava" => tiles[i] = border

\* C6 witness: ticks have run and a creature has eaten the food of a Ground border tile
C6_Witness ==
    /\ current_tick >= 2
    /\ border.kind = "Ground"
    /\ \E i \in BorderIndices : tiles[i].food_1 # border.food_1

----------------------------------------------------------------------------
(* The vocabulary of the claims about one application step, stated from the
   specification's text and not through the operators above *)

\* the costs of section 4.2
ClaimCost(action) ==
    CASE action.type = "Idle" -> 1
      [] action.type = "Rotate" -> 2
      [] action.type = "Eat" -> 2
      [] action.type = "Move" -> 3
      [] action.type = "CopyDna" -> 10
      [] action.type = "CreateMembrane" -> 105

\* the facing a relative direction resolves to: clockwise quarter turns from North
Turns(direction) ==
    CASE direction = "North" -> 0 [] direction = "East" -> 1
      [] direction = "South" -> 2 [] direction = "West" -> 3
      [] direction = "InFront" -> 0 [] direction = "Right" -> 1
      [] direction = "Behind" -> 2 [] direction = "Left" -> 3

\* the cell one step from p in the relative direction, coordinates saturating at 0
ClaimTarget(p, facing, location) ==
    LET t == (Turns(facing) + Turns(location)) % 4
    IN CASE t = 0 -> Pos(p.x, IF p.y = 0 THEN 0 ELSE p.y - 1)
         [] t = 1 -> Pos(p.x + 1, p.y)
         [] t = 2 -> Pos(p.x, p.y + 1)
         [] t = 3 -> Pos(IF p.x = 0 THEN 0 ELSE p.x - 1, p.y)

InGrid(p) == p.x < width /\ p.y < height

\* this step is the application of the collected pair pa
AppliedNow(pa) ==
    /\ pc = "apply"
    /\ pa \in actions
    /\ actions' = actions \ {pa}
    /\ pa.position \in DOMAIN creatures

\* the target of pa is an in-bounds tile of the given kind that no creature occupies
FreeTarget(pa, kind) ==
    LET t == ClaimTarget(pa.position, creatures[pa.position].rotation, pa.action.arg)
    IN InGrid(t) /\ t \notin DOMAIN creatures /\ tiles[t.y * width + t.x].kind = kind

\* the creature of pa is in the map after the step (where it was, or where its
\* Move took it) with the given energy
SurvivesWith(pa, energy) ==
    LET p == pa.position
        t == ClaimTarget(p, creatures[p].rotation, pa.action.arg)
    IN \/ p \in DOMAIN creatures' /\ creatures'[p].energy = energy
       \/ /\ pa.action.type = "Move"
          /\ t \notin DOMAIN creatures
          /\ t \in DOMAIN creatures'
          /\ creatures'[t].energy = energy

Gone(p) ==
    /\ p \in DOMAIN creatures
    /\ p \notin DOMAIN creatures'
    /\ Cardinality(DOMAIN creatures') < Cardinality(DOMAIN creatures)

MovePairs == {pa \in decided : pa.action.type = "Move"}
DecidedTarget(pa) ==
    ClaimTarget(pa.position, snapshot[pa.position].rotation, pa.action.arg)

\* the creature now is the one that decided, 3 energy poorer (its brain may
\* have been replaced by a CopyDna in the meantime)
SameMover(now, before) ==
    /\ now.born = before.born
    /\ now.rotation = before.rotation
    /\ now.offspring = before.offspring
    /\ now.energy = before.energy - 3

RelocatedTo(pa, d) ==
    /\ d # pa.position
    /\ d \in DOMAIN creatures
    /\ SameMover(creatures[d], snapshot[pa.position])
    /\ pa.position \in DOMAIN creatures =>
          ~SameMover(creatures[pa.position], snapshot[pa.position])

StayedAt(pa) ==
    /\ pa.position \in DOMAIN creatures
    /\ SameMover(creatures[pa.position], snapshot[pa.position])

ApplyPhaseOver == pc = "apply" /\ actions = {}

\* C5 as stated: when two decided Moves of one tick target the same cell,
\* whatever the order of application at most one creature is relocated to it
\* and the other is still at its own position: neither is lost.  (Stated for
\* a target that is neither creature's own cell.)
C5_ConflictNeitherLost ==
    ApplyPhaseOver =>
       \A pa \in MovePairs, pb \in MovePairs :
          (pa # pb /\ DecidedTarget(pa) = DecidedTarget(pb)
                   /\ DecidedTarget(pa) \notin {pa.position, pb.position}) =>
             LET d == DecidedTarget(pa)
             IN /\ ~(RelocatedTo(pa, d) /\ RelocatedTo(pb, d))
                /\ RelocatedTo(pa, d) \/ StayedAt(pa)
                /\ RelocatedTo(pb, d) \/ StayedAt(pb)

\* C5 amended: when two decided Moves of one tick target the same cell,
\* whatever the order of application at most one creature is relocated to it,
\* and each of the two that could pay for its Move (energy >= 3) and was not
\* relocated is still at its own position; a creature that could not pay is
\* removed (C2).  No creature is overwritten: a creature without an action of
\* its own that stands on the target stays there.
C5_ConflictOneWinner ==
    ApplyPhaseOver =>
       \A pa \in MovePairs, pb \in MovePairs :
          (pa # pb /\ DecidedTarget(pa) = DecidedTarget(pb)) =>
             LET d == DecidedTarget(pa)
             IN /\ ~(RelocatedTo(pa, d) /\ RelocatedTo(pb, d))
                /\ \A x \in {pa, pb} :
                      IF snapshot[x.position].energy >= 3
                      THEN (RelocatedTo(x, d) \/ StayedAt(x))
                           /\ ~(RelocatedTo(x, d) /\ StayedAt(x))
                      ELSE ~RelocatedTo(x, d) /\ ~StayedAt(x)
                /\ (d \in DOMAIN snapshot /\ d \notin {x.position : x \in decided}) =>
                      /\ d \in DOMAIN creatures
                      /\ [creatures[d] EXCEPT !.brain = NoBrain] =
                            [snapshot[d] EXCEPT !.brain = NoBrain]

\* C5 witness: two creatures that could both pay decided Moves onto one free
\* cell; one is there now and the other is where it was
C5_Witness ==
    /\ ApplyPhaseOver
    /\ \E pa \in MovePairs, pb \in MovePairs :
          /\ pa # pb
          /\ DecidedTarget(pa) = DecidedTarget(pb)
          /\ DecidedTarget(pa) \notin DOMAIN snapshot
          /\ snapshot[pa.position].energy >= 3
          /\ snapshot[pb.position].energy >= 3
          /\ RelocatedTo(pa, DecidedTarget(pa))
          /\ StayedAt(pb)

\* C7: Eat with energy e >= 2: on a Ground tile with food the flag becomes
\* false and the energy e - 2 + 50; without food the energy becomes e - 2 and
\* the flag stays false; no other tile and no other creature changes.
C7_EatEffect ==
    [][\A pa \in actions : (AppliedNow(pa) /\ pa.action.type = "Eat"
                            /\ creatures[pa.position].energy >= 2) =>
          LET p == pa.position
              i == p.y * width + p.x
              e == creatures[p].energy
          IN IF tiles[i] = Ground(TRUE)
             THEN /\ tiles' = [tiles EXCEPT ![i] = Ground(FALSE)]
                  /\ creatures' = [creatures EXCEPT ![p].energy = e - 2 + 50]
             ELSE /\ tiles' = tiles
                  /\ creatures' = [creatures EXCEPT ![p].energy = e - 2]]_vars

\* C8: Reproduce with energy >= 105 toward an unoccupied in-bounds Ground cell
\* adds exactly one creature, at that cell, with no brain, energy 100,
\* offspring 0 and the current tick as birth tick; the parent's offspring
\* counter grows by 1 and its energy shrinks by 105; nothing else changes.
C8_ReproduceCreatesInertChild ==
    [][\A pa \in actions : (AppliedNow(pa) /\ pa.action.type = "CreateMembrane"
                            /\ creatures[pa.position].energy >= 105
                            /\ FreeTarget(pa, "Ground")) =>
          LET p == pa.position
              t == ClaimTarget(p, creatures[p].rotation, pa.action.arg)
          IN /\ tiles' = tiles
             /\ DOMAIN creatures' = DOMAIN creatures \cup {t}
             /\ creatures'[t].brain = NoBrain
             /\ creatures'[t].energy = 100
             /\ creatures'[t].offspring = 0
             /\ creatures'[t].born = current_tick
             /\ creatures'[p] = [creatures[p] EXCEPT !.energy = @ - 105,
                                                     !.offspring = @ + 1]
             /\ \A q \in DOMAIN creatures \ {p} : creatures'[q] = creatures[q]]_vars

\* C8 witness: a Reproduce has put a brainless child born this tick on the free target
C8_Witness ==
    /\ pc = "apply"
    /\ last.present
    /\ last.action.type = "CreateMembrane"
    /\ last.before.energy >= 105
    /\ LET t == ClaimTarget(last.position, last.before.rotation, last.action.arg)
       IN /\ t \notin DOMAIN snapshot
          /\ t \in DOMAIN creatures
          /\ creatures[t].brain = NoBrain
          /\ creatures[t].born = current_tick
          /\ creatures[last.position].offspring = last.before.offspring + 1

\* C9: a creature without a brain contributes no pair to the application list
\* and, while it has no brain, no step of any tick removes it or changes its
\* energy, facing, position, birth tick or offspring counter.
C9_BrainlessIsInert ==
    [][/\ \A p \in todo :
             (pc = "decide" /\ todo' = todo \ {p} /\ creatures[p].brain = NoBrain)
                => actions' = actions
       /\ \A pa \in actions : snapshot[pa.position].brain # NoBrain
       /\ \A p \in DOMAIN creatures : creatures[p].brain = NoBrain =>
             /\ p \in DOMAIN creatures'
             /\ creatures'[p].energy = creatures[p].energy
             /\ creatures'[p].rotation = creatures[p].rotation
             /\ creatures'[p].born = creatures[p].born
             /\ creatures'[p].offspring = creatures[p].offspring]_vars

\* C9 witness: a neighbour's Move or Reproduce aimed at a brainless creature
\* has been applied, and the brainless creature is still there
C9_Witness ==
    /\ pc = "apply"
    /\ last.present
    /\ last.action.type \in {"Move", "CreateMembrane"}
    /\ last.before.energy >= ClaimCost(last.action)
    /\ LET t == ClaimTarget(last.position, last.before.rotation, last.action.arg)
       IN /\ t # last.position
          /\ t \in DOMAIN snapshot
          /\ snapshot[t].brain = NoBrain
          /\ t \in DOMAIN creatures
          /\ creatures[t] = snapshot[t]

\* C10: CopyBrain with energy >= 10: with a distinct creature at the target,
\* the target's brain becomes the actor's brain and nothing else of the target
\* changes, nor the actor's brain; with no creature at the target nothing
\* changes but the actor's energy, which shrinks by 10.
C10_CopyBrainFrame ==
    [][\A pa \in actions : (AppliedNow(pa) /\ pa.action.type = "CopyDna"
                            /\ creatures[pa.position].energy >= 10) =>
          LET p == pa.position
              t == ClaimTarget(p, creatures[p].rotation, pa.action.arg)
              paid == [creatures EXCEPT ![p].energy = @ - 10]
          IN /\ (t \in DOMAIN creatures /\ t # p) =>
                   /\ tiles' = tiles
                   /\ creatures' = [paid EXCEPT ![t].brain = creatures[p].brain]
             /\ t \notin DOMAIN creatures =>
                   /\ tiles' = tiles
                   /\ creatures' = paid]_vars

\* C10 witness: a CopyBrain has replaced the brain of the creature at its target
C10_Witness ==
    /\ pc = "apply"
    /\ last.present
    /\ last.action.type = "CopyDna"
    /\ last.before.energy >= 10
    /\ LET t == ClaimTarget(last.position, last.before.rotation, last.action.arg)
       IN /\ t # last.position
          /\ t \in DOMAIN snapshot
          /\ snapshot[t].brain # last.before.brain
          /\ t \in DOMAIN creatures
          /\ creatures[t] = [snapshot[t] EXCEPT !.brain = last.before.brain]

----------------------------------------------------------------------------
(* The phases of World::tick *)

\* the kinds of step a tick is made of, told apart by the work list they consume
DecisionStep == todo' # todo /\ todo' \subseteq todo
ApplicationStep == actions' # actions /\ actions' \subseteq actions
SpawnAttempt == spawn_left' = spawn_left - 1
FoodAttempt == food_left' = food_left - 1

\* the creatures with a brain that tick() found
BrainBearers == {p \in DOMAIN snapshot : snapshot[p].brain # NoBrain}

\* C11: within every tick the phases occur in the order Decide, Apply, Spawn,
\* Food-regen with a barrier between them: no action is applied (and the world
\* does not change) before every brain-bearing creature's decision has been
\* collected, no spawn is attempted before the last collected action has been
\* applied, no food is regenerated before the last spawn attempt, and the next
\* tick's decisions start only after the last food attempt.
C11_PhasesInOrder ==
    [][/\ DecisionStep =>
             /\ actions \subseteq actions'
             /\ tiles' = tiles /\ creatures' = creatures
             /\ spawn_left = 0 /\ food_left = 0
       /\ ApplicationStep =>
             /\ todo = {}
             /\ {pa.position : pa \in decided} = BrainBearers
             /\ actions \subseteq decided
             /\ spawn_left' = spawn_left /\ food_left' = food_left
       /\ SpawnAttempt =>
             /\ todo = {} /\ actions = {}
             /\ tiles' = tiles /\ food_left' = food_left
       /\ FoodAttempt =>
             /\ todo = {} /\ actions = {} /\ spawn_left = 0
             /\ creatures' = creatures
       /\ (tiles' # tiles \/ creatures' # creatures) =>
             ApplicationStep \/ SpawnAttempt \/ FoodAttempt]_vars

\* C11 witness: the second tick has gone through all four phases: a creature
\* born in the first tick has paid for its action, and both spawn attempts and
\* both food attempts have been made
C11_Witness ==
    /\ pc = "food"
    /\ food_left = 0
    /\ current_tick = 2
    /\ settings.food_regen_rate = 2
    /\ settings.creature_generation_rate = 2
    /\ spawn_left = 0
    /\ \E p \in DOMAIN creatures : creatures[p].born = 1 /\ creatures[p].energy # 100

\* the brain of the creature tick() found at p has no Random neuron
NoRandomNeuron(p) ==
    /\ snapshot[p].brain # NoBrain
    /\ \A i \in 1 .. Len(BrainPool[snapshot[p].brain].neurons) :
          BrainPool[snapshot[p].brain].neurons[i].itype # "Random"

\* C12: the Decide phase is read-only and order-insensitive: while decisions
\* are computed no tile, no creature and no occupancy entry changes, so each
\* decision is computed from the World as it stood at the start of the tick;
\* a creature without a brain adds no pair, a creature with a brain adds one;
\* and when the last decision is in, a creature whose brain has no Random
\* neuron has exactly one pair, the one action that world determines, whatever
\* the order in which the creatures were visited.
C12_DecideReadOnly ==
    [][pc = "decide" =>
          /\ tiles' = tiles
          /\ creatures' = creatures
          /\ creatures = snapshot
          /\ \A p \in todo : todo' = todo \ {p} =>
                IF snapshot[p].brain = NoBrain
                THEN actions' = actions
                ELSE \E a \in decisions(p, snapshot, tiles) :
                        actions' = actions \cup {[position |-> p, action |-> a]}
          /\ todo = {} =>
                \A p \in DOMAIN snapshot : NoRandomNeuron(p) =>
                   /\ Cardinality(decisions(p, snapshot, tiles)) = 1
                   /\ {pa \in actions : pa.position = p} =
                         {[position |-> p, action |-> a] :
                             a \in decisions(p, snapshot, tiles)}]_vars

\* C12 witness: two creatures have decided and nothing is applied yet; one of
\* them felt the other on its right and decided CopyBrain
C12_Witness ==
    /\ pc = "apply"
    /\ actions = decided
    /\ Cardinality(decided) = 2
    /\ \E pa \in decided : pa.action.type = "CopyDna" /\ NoRandomNeuron(pa.position)
    /\ creatures = snapshot

\* this step is a call of tick()
TickCall == calls_left' = calls_left - 1

\* C13: the tick counter is 0 after construction, grows by exactly one with
\* each tick() call, before any decision, application, spawn or food attempt
\* of that tick, and changes in no other step; after n calls it is n, and a
\* creature that enters the map during the k-th tick, by random spawn or by
\* Reproduce, has birth tick k.
C13_TickCounter ==
    [][/\ current_tick = MaxTick - calls_left
       /\ current_tick' >= current_tick
       /\ TickCall =>
             /\ current_tick' = current_tick + 1
             /\ todo = {} /\ actions = {} /\ spawn_left = 0 /\ food_left = 0
             /\ tiles' = tiles /\ creatures' = creatures /\ actions' = {}
       /\ (DecisionStep \/ ApplicationStep \/ SpawnAttempt \/ FoodAttempt) =>
             /\ current_tick' = current_tick
             /\ current_tick >= 1
       /\ current_tick' # current_tick => TickCall
       /\ \A p \in DOMAIN creatures' :
             (p \notin DOMAIN creatures
              /\ Cardinality(DOMAIN creatures') > Cardinality(DOMAIN creatures)) =>
                creatures'[p].born = current_tick
       /\ \A p \in DOMAIN creatures : creatures[p].born \in 1 .. current_tick]_vars

\* C13 witness: three calls have returned; the map holds a child born by
\* Reproduce in the third tick and a creature spawned in an earlier one
C13_Witness ==
    /\ pc = "idle"
    /\ calls_left = MaxTick - 3
    /\ current_tick = 3
    /\ \E p \in DOMAIN creatures : creatures[p].born = 3 /\ creatures[p].brain = NoBrain
    /\ \E p \in DOMAIN creatures : creatures[p].born < 3 /\ creatures[p].brain # NoBrain

\* C14: the Spawn phase makes exactly creature_generation_rate attempts; each
\* attempt changes no tile and either leaves the occupancy map as it is
\* (discarded, no retry) or adds one entry at a cell that was unoccupied and is
\* an in-bounds Ground tile, holding a creature with energy 100, offspring 0
\* and a brain; every creature already in the map stays as it is, so the
\* phase adds at most creature_generation_rate creatures.
C14_SpawnPhase ==
    [][/\ (pc # "spawn" /\ pc' = "spawn") =>
             spawn_left' = settings.creature_generation_rate
       /\ (pc = "spawn" /\ pc' # "spawn") => spawn_left = 0
       /\ pc = "spawn" =>
             /\ spawn_left \in 0 .. settings.creature_generation_rate
             /\ spawn_left' # spawn_left => SpawnAttempt
             /\ Cardinality(DOMAIN creatures') + spawn_left' <=
                   Cardinality(DOMAIN creatures) + spawn_left
       /\ SpawnAttempt =>
             /\ tiles' = tiles
             /\ \A q \in DOMAIN creatures :
                   q \in DOMAIN creatures' /\ creatures'[q] = creatures[q]
             /\ \A p \in DOMAIN creatures' \ DOMAIN creatures :
                   /\ InGrid(p)
                   /\ tiles[p.y * width + p.x].kind = "Ground"
                   /\ creatures'[p].energy = 100
                   /\ creatures'[p].offspring = 0
                   /\ creatures'[p].brain # NoBrain
                   /\ DOMAIN creatures' = DOMAIN creatures \cup {p}]_vars

\* C14 witness: both attempts of a spawn phase chose Ground cells of an empty
\* map; one put a creature with a brain there and the other was discarded
C14_Witness ==
    /\ pc = "spawn"
    /\ spawn_left = 0
    /\ settings.creature_generation_rate = 2
    /\ border.kind = "Ground"
    /\ current_tick = 1
    /\ Cardinality(DOMAIN creatures) = 1
    /\ \A p \in DOMAIN creatures :
          /\ creatures[p].brain # NoBrain
          /\ creatures[p].energy = 100
          /\ creatures[p].born = 1

\* C15: the Food-regen phase makes exactly food_regen_rate attempts; each sets
\* the food flag of one in-bounds Ground tile to true or, on an Impassable
\* tile, changes nothing; no food flag is cleared, no tile changes its kind,
\* and the occupancy map and every creature stay as they are.
C15_FoodPhase ==
    [][/\ (pc # "food" /\ pc' = "food") => food_left' = settings.food_regen_rate
       /\ (pc = "food" /\ pc' # "food") => food_left = 0
       /\ pc = "food" =>
             /\ food_left \in 0 .. settings.food_regen_rate
             /\ food_left' # food_left => FoodAttempt
             /\ creatures' = creatures
             /\ \A i \in DOMAIN tiles :
                   /\ tiles'[i].kind = tiles[i].kind
                   /\ tiles[i].food_1 => tiles'[i].food_1
       /\ FoodAttempt =>
             \E i \in 0 .. width * height - 1 :
                IF tiles[i].kind = "Ground"
                THEN tiles' = [tiles EXCEPT ![i] = Ground(TRUE)]
                ELSE tiles' = tiles]_vars

\* C15 witness: food has appeared under a creature: it ate the food of its
\* tile in this tick (100 - 2 + 50) and the tile has food again when the
\* second attempt of the food phase is done
C15_Witness ==
    /\ pc = "food"
    /\ food_left = 0
    /\ settings.food_regen_rate = 2
    /\ current_tick = 2
    /\ \E p \in DOMAIN creatures :
          /\ creatures[p].born = 1
          /\ creatures[p].energy = 148
          /\ tiles[p.y * width + p.x] = Ground(TRUE)

\* C16: applying Move, Reproduce or CopyBrain (with the energy to pay for it)
\* whose target cell lies outside the grid, or saturates at coordinate 0 back
\* onto the actor's own cell, never aborts the tick: the step completes and
\* changes nothing but the actor's energy (and, for Reproduce, its offspring
\* counter).
C16_EdgeTargetsAreNoOps ==
    [][\A pa \in actions :
          LET p == pa.position
              t == ClaimTarget(p, creatures[p].rotation, pa.action.arg)
          IN (/\ AppliedNow(pa)
              /\ pa.action.type \in {"Move", "CreateMembrane", "CopyDna"}
              /\ creatures[p].energy >= ClaimCost(pa.action)
              /\ (~InGrid(t) \/ t = p)) =>
                /\ pc' # "panic"
                /\ tiles' = tiles
                /\ creatures' =
                      [creatures EXCEPT
                          ![p].energy = @ - ClaimCost(pa.action),
                          ![p].offspring =
                              IF pa.action.type = "CreateMembrane" THEN @ + 1 ELSE @]]_vars

----------------------------------------------------------------------------
(* Brains *)

\* randomize has returned the network eval.net
HasNet == eval.phase \in {"net", "seeded", "decided"}

NeuronsOfKind(kind) ==
    {i \in 1 .. Len(eval.net.neurons) : eval.net.neurons[i].kind = kind}

\* C17: every Brain NeuralNetwork::randomize returns has between 6 and 16
\* neurons, at least one sensing (Input) and at least one acting (Output)
\* neuron, at most 16 connections, and no two connections with the same
\* (source, destination) pair.
C17_BrainValidity ==
    HasNet =>
       /\ Len(eval.net.neurons) \in 6 .. 16
       /\ NeuronsOfKind("Input") # {}
       /\ NeuronsOfKind("Output") # {}
       /\ Len(eval.net.connections) <= 16
       /\ \A i \in 1 .. Len(eval.net.connections), j \in 1 .. Len(eval.net.connections) :
             (/\ eval.net.connections[i].source = eval.net.connections[j].source
              /\ eval.net.connections[i].destination = eval.net.connections[j].destination)
                => i = j

\* C17 witness: a Brain of 16 neurons whose connection loop ran at least once
\* per sensing neuron and drew some pair twice: it has connections, but fewer
\* than it made tries
C17_Witness ==
    /\ eval.phase = "net"
    /\ Len(eval.net.neurons) = 16
    /\ Len(eval.net.connections) >= 2
    /\ Len(eval.net.connections) < Cardinality(NeuronsOfKind("Input"))

RECURSIVE ClaimInput(_, _)
\* the input neuron i (1-based) has accumulated from the first j connections:
\* the seeded output of the source of each connection that ends at i
ClaimInput(i, j) ==
    IF j = 0 THEN 0
    ELSE LET c == eval.net.connections[j]
         IN ClaimInput(i, j - 1)
            + (IF c.destination + 1 = i THEN eval.neuron_states[c.source + 1].output ELSE 0)

ClaimTotal(i) == ClaimInput(i, Len(eval.net.connections))

\* the acting neurons with a positive accumulated input that no acting neuron exceeds
ClaimBest ==
    {i \in NeuronsOfKind("Output") :
        /\ ClaimTotal(i) > 0
        /\ \A j \in NeuronsOfKind("Output") : ClaimTotal(j) <= ClaimTotal(i)}

\* C18: calculate_action applies each connection once, adding the source
\* neuron's seeded output to the destination neuron's accumulated input;
\* acting neurons are seeded with output 0; the Action returned is that of the
\* acting neuron with the largest accumulated input, the earliest in
\* declaration order among equals, and Idle when no acting neuron has a
\* positive accumulated input.
C18_CalculateAction ==
    eval.phase = "decided" =>
       /\ \A i \in NeuronsOfKind("Output") : eval.neuron_states[i].output = 0
       /\ eval.action =
             IF ClaimBest = {} THEN Idle
             ELSE eval.net.neurons[CHOOSE i \in ClaimBest :
                                      \A j \in ClaimBest : i <= j].action

\* C18 witness: two acting neurons with different Actions tie on the largest
\* accumulated input, and the Action of the earlier one was returned
C18_Witness ==
    /\ eval.phase = "decided"
    /\ \E i \in ClaimBest, j \in ClaimBest :
          /\ i < j
          /\ \A k \in ClaimBest : i <= k
          /\ eval.net.neurons[i].action # eval.net.neurons[j].action
          /\ eval.action = eval.net.neurons[i].action

\* the orders the connections of eval.net can be iterated in that are
\* compared: every rotation of the list and of its reverse
ClaimOrders ==
    LET conns == eval.net.connections
        n == Len(conns)
        rotated(seq, r) == [j \in 1 .. n |-> seq[((j - 1 + r) % n) + 1]]
    IN IF n = 0 THEN {conns}
       ELSE {rotated(conns, r) : r \in 0 .. n - 1}
            \cup {rotated(Reverse(conns), r) : r \in 0 .. n - 1}

NoRandomInNet == \A i \in 1 .. Len(eval.net.neurons) : eval.net.neurons[i].itype # "Random"

\* C19: for a Brain without Random neuron and given seeded outputs, the
\* decision is one Action: evaluating it again, with the connections iterated
\* in any other order, returns the Action that was returned.
C19_DecisionDeterministic ==
    (eval.phase = "decided" /\ NoRandomInNet) =>
       \A order \in ClaimOrders :
          calculate_action(eval.neuron_states, [eval.net EXCEPT !.connections = order])
             = eval.action

\* C19 witness: a Brain without Random neuron in which two connections with
\* different source outputs end at the acting neuron whose Action was returned
C19_Witness ==
    /\ eval.phase = "decided"
    /\ NoRandomInNet
    /\ eval.action # Idle
    /\ \E i \in 1 .. Len(eval.net.connections), j \in 1 .. Len(eval.net.connections) :
          LET ci == eval.net.connections[i]
              cj == eval.net.connections[j]
          IN /\ ci.destination = cj.destination
             /\ eval.net.neurons[ci.destination + 1].kind = "Output"
             /\ eval.net.neurons[ci.destination + 1].action = eval.action
             /\ eval.neuron_states[ci.source + 1].output
                   # eval.neuron_states[cj.source + 1].output

----------------------------------------------------------------------------
(* Colors *)

\* every channel of a is strictly greater than the corresponding channel of b
StrictlyAbove(a, b) == \A ch \in 1 .. 3 : a[ch] > b[ch]

\* a dominates b as the program decides it
Dominates(a, b) == Color_partial_cmp(a, b) = "Greater"

\* C20: color dominance is a strict partial order: a dominates b iff every
\* channel of a is strictly greater than that of b; no color dominates itself,
\* two colors never dominate each other, dominance is transitive, (10,10,10)
\* does not dominate (10,5,5) and dominates (5,5,5).  The comparison of the
\* ColorSensor, a >= b, is true exactly when a dominates b, and false for
\* equal colors.
C20_ColorDominance ==
    cmp.phase = "compared" =>
       /\ (cmp.partial_cmp = "Greater") <=> StrictlyAbove(cmp.a, cmp.b)
       /\ cmp.partial_cmp \in {"Greater", "None"}
       /\ cmp.ge <=> StrictlyAbove(cmp.a, cmp.b)
       /\ cmp.a = cmp.b => ~cmp.ge
       /\ ~Dominates(cmp.a, cmp.a)
       /\ ~(Dominates(cmp.a, cmp.b) /\ Dominates(cmp.b, cmp.a))
       /\ \A c \in ColorsExplored :
             (Dominates(cmp.a, cmp.b) /\ Dominates(cmp.b, c)) => Dominates(cmp.a, c)
       /\ ~Dominates(<<10, 10, 10>>, <<10, 5, 5>>)
       /\ Dominates(<<10, 10, 10>>, <<5, 5, 5>>)

\* C20 witness: (10,10,10) has been compared with (10,5,5): neither dominates
\* the other and >= is false
C20_Witness ==
    /\ cmp.phase = "compared"
    /\ cmp.a = <<10, 10, 10>>
    /\ cmp.b = <<10, 5, 5>>
    /\ cmp.partial_cmp = "None"
    /\ ~cmp.ge
    /\ ~Dominates(cmp.b, cmp.a)

----------------------------------------------------------------------------
(* Energy *)

\* C21: the +50 of Eat is a saturating addition: for every energy e >= 2 of
\* the u16 range, eating the food of the own tile leaves min(65535, e - 2 + 50),
\* never a wrapped-around small value, and never aborts the tick.
C21_EatSaturates ==
    [][\A pa \in actions :
          LET p == pa.position
              e == creatures[p].energy
          IN (/\ AppliedNow(pa)
              /\ pa.action.type = "Eat"
              /\ e >= 2
              /\ tiles[p.y * width + p.x] = Ground(TRUE)) =>
                /\ pc' # "panic"
                /\ p \in DOMAIN creatures'
                /\ creatures'[p].energy =
                      (IF e - 2 + 50 > 65535 THEN 65535 ELSE e - 2 + 50)]_vars

\* C22: the costs are Idle 1, Rotate 2, Eat 2, Move 3, CopyBrain 10 and
\* Reproduce 105: a creature that cannot pay is removed and nothing else
\* changes (so Reproduce at the spawn energy of 100 removes the creature and
\* creates none), a creature that can pay loses exactly the cost (and gains 50
\* only by eating food).  Every creature enters the map with energy 100 and a
\* creature's energy grows in no step but its own Eat on a tile with food, so
\* a creature that adds a child to the map has eaten since it was created.
C22_CostsAndReproduce ==
    [][/\ \A pa \in actions : AppliedNow(pa) =>
             LET p == pa.position
                 e == creatures[p].energy
                 cost == ClaimCost(pa.action)
                 fed == pa.action.type = "Eat" /\ tiles[p.y * width + p.x] = Ground(TRUE)
             IN /\ e < cost => creatures' = Remove(creatures, p) /\ tiles' = tiles
                /\ e >= cost =>
                      \/ SurvivesWith(pa, IF fed THEN e - cost + 50 ELSE e - cost)
                      \/ pa.action.type = "Move" /\ FreeTarget(pa, "Lava")
                /\ Cardinality(DOMAIN creatures') > Cardinality(DOMAIN creatures) =>
                      /\ pa.action.type = "CreateMembrane"
                      /\ e >= 105
       /\ \A q \in DOMAIN creatures' :
             IF q \in DOMAIN creatures
             THEN creatures'[q].energy > creatures[q].energy =>
                     \E pa \in actions :
                        /\ AppliedNow(pa)
                        /\ pa.position = q
                        /\ pa.action.type = "Eat"
                        /\ tiles[q.y * width + q.x] = Ground(TRUE)
                        /\ tiles'[q.y * width + q.x] = Ground(FALSE)
             ELSE \/ creatures'[q].energy = 100
                  \/ \E p \in DOMAIN creatures \ DOMAIN creatures' :
                        creatures'[q].energy < creatures[p].energy]_vars

\* C22 witness: the only creature, still at its spawn energy of 100, decided
\* Reproduce: it is gone and the map is empty
C22_Witness ==
    /\ pc = "apply"
    /\ last.present
    /\ last.action.type = "CreateMembrane"
    /\ last.before.energy = 100
    /\ last.before.offspring = 0
    /\ DOMAIN snapshot = {last.position}
    /\ creatures = NoCreatures
    /\ current_tick <= MaxTick

----------------------------------------------------------------------------
(* Reproduce that places nothing *)

\* C23: Reproduce by a creature with energy >= 105 toward an in-bounds cell
\* that is occupied or Impassable raises its offspring counter by 1 and lowers
\* its energy by 105, creates no creature and changes nothing else: the
\* creature at the target keeps energy, facing, brain, birth tick and offspring
\* counter.  This holds whatever the offspring counter was (more than 2
\* included), and no step lowers the offspring counter of a creature that
\* stays where it is.
C23_ReproduceFailure ==
    [][/\ \A pa \in actions :
             LET p == pa.position
                 t == ClaimTarget(p, creatures[p].rotation, pa.action.arg)
             IN (/\ AppliedNow(pa)
                 /\ pa.action.type = "CreateMembrane"
                 /\ creatures[p].energy >= 105
                 /\ InGrid(t)
                 /\ (t \in DOMAIN creatures \/ tiles[t.y * width + t.x].kind = "Lava")) =>
                   /\ tiles' = tiles
                   /\ pc' # "panic"
                   /\ creatures' = [creatures EXCEPT ![p].energy = @ - 105,
                                                     ![p].offspring = @ + 1]
       /\ \A q \in DOMAIN creatures \cap DOMAIN creatures' :
             creatures'[q].born = creatures[q].born =>
                creatures'[q].offspring >= creatures[q].offspring]_vars

\* C23 witness: a creature that had reproduced three times applied Reproduce
\* toward an Impassable tile: its counter is 4, it paid 105, and no creature
\* was added
C23_Witness ==
    /\ pc = "apply"
    /\ last.present
    /\ last.action.type = "CreateMembrane"
    /\ last.before.offspring = 3
    /\ last.before.energy >= 105
    /\ LET t == ClaimTarget(last.position, last.before.rotation, last.action.arg)
       IN InGrid(t) /\ tiles[t.y * width + t.x].kind = "Lava"
    /\ DOMAIN creatures = DOMAIN snapshot
    /\ creatures[last.position].offspring = 4
    /\ creatures[last.position].energy = last.before.energy - 105

----------------------------------------------------------------------------
(* Connections and seeds *)

\* C24: in every Brain randomize returns, the source of each connection is
\* the position, within the neuron collection, of a sensing (Input) neuron and
\* its destination the position of an acting (Output) neuron.
C24_ConnectionsJoinInputToOutput ==
    HasNet =>
       \A j \in 1 .. Len(eval.net.connections) :
          /\ eval.net.connections[j].source + 1 \in NeuronsOfKind("Input")
          /\ eval.net.connections[j].destination + 1 \in NeuronsOfKind("Output")

\* the color of a tile: Ground without food (0,0,0), Ground with food
\* (0,255,0), Impassable (255,128,0)
ClaimTileColor(tile) ==
    CASE tile = Ground(FALSE) -> <<0, 0, 0>>
      [] tile = Ground(TRUE) -> <<0, 255, 0>>
      [] tile = Lava -> <<255, 128, 0>>

\* the cell a sensor of the creature under evaluation samples
ClaimSensedCell(location) ==
    IF location = "None" THEN eval.position
    ELSE ClaimTarget(eval.position, eval.me.rotation, location)

\* the outputs neuron i may be seeded with, 1.0 being FloatScale
ClaimSeeds(i) ==
    LET neuron == eval.net.neurons[i]
        cell == ClaimSensedCell(neuron.location)
    IN CASE neuron.kind = "Output" -> {0}
         [] neuron.itype = "AlwaysActive" -> {FloatScale}
         [] neuron.itype = "Random" -> 0 .. FloatScale - 1
         [] neuron.itype = "Feeler" ->
               {IF cell \in DOMAIN eval.creatures THEN FloatScale ELSE 0}
         [] neuron.itype = "Eye" ->
               {IF /\ InGrid(cell)
                   /\ StrictlyAbove(ClaimTileColor(eval.tiles[cell.y * width + cell.x]),
                                    neuron.color)
                THEN FloatScale ELSE 0}

\* C25: seeding: a ProximitySensor(dir) is seeded 1 iff the cell one step from
\* the creature in dir, resolved against its facing (coordinates saturating at
\* 0), is occupied by a creature, else 0; a ColorSensor is seeded 1 iff the
\* color of the tile at the resolved cell (the creature's own cell when it has
\* no direction) strictly dominates its reference color, and 0 otherwise, also
\* when that cell has no tile; AlwaysActive is seeded 1, a Random neuron below
\* 1, every acting neuron 0, and every accumulated input starts at 0.
C25_Seeding ==
    eval.phase = "seeded" =>
       /\ Len(eval.neuron_states) = Len(eval.net.neurons)
       /\ \A i \in 1 .. Len(eval.net.neurons) :
             /\ eval.neuron_states[i].input = 0
             /\ eval.neuron_states[i].output \in ClaimSeeds(i)

\* C25 witness: a creature facing East with a neighbour on the cell behind it
\* has seeded a ProximitySensor(Behind) with 1 and another ProximitySensor
\* with 0
C25_Witness ==
    /\ eval.phase = "seeded"
    /\ eval.me.rotation = "East"
    /\ Pos(0, 0) \in DOMAIN eval.creatures
    /\ \E i \in 1 .. Len(eval.net.neurons), j \in 1 .. Len(eval.net.neurons) :
          /\ eval.net.neurons[i] = Feeler("Behind")
          /\ eval.neuron_states[i].output = FloatScale
          /\ eval.net.neurons[j].itype = "Feeler"
          /\ eval.neuron_states[j].output = 0

\* the four facings in clockwise order
ClaimCompass == <<"North", "East", "South", "West">>

\* the facing k quarter turns clockwise of f
ClaimTurned(f, k) == ClaimCompass[((Turns(f) + k) % 4) + 1]

\* the cell exactly one step from p in a cardinal direction
ClaimStep(p, direction) ==
    CASE direction = "North" -> Pos(p.x, p.y - 1)
      [] direction = "East" -> Pos(p.x + 1, p.y)
      [] direction = "South" -> Pos(p.x, p.y + 1)
      [] direction = "West" -> Pos(p.x - 1, p.y)

ClaimOnEdge(p) == p.x \in {0, LookGrid - 1} \/ p.y \in {0, LookGrid - 1}

\* C26: facing arithmetic is consistent: a clockwise Rotate followed by a
\* counter-clockwise one, or the reverse, gives back the facing; four equal
\* Rotates give back the facing; a relative direction resolved against a
\* facing f gives f for InFront, the counter-clockwise neighbour of f for Left,
\* the clockwise neighbour for Right and the opposite for Behind; and the cell
\* computed for a relative direction is exactly one step from the creature in
\* that cardinal direction whenever the creature is not on the grid edge.
C26_FacingArithmetic ==
    /\ walk.phase # "none" =>
          /\ \A i \in 1 .. Len(walk.turned) - 1 :
                walk.turned[i] # walk.turned[i + 1] => walk.facings[i + 2] = walk.facings[i]
          /\ \A i \in 1 .. Len(walk.turned) - 3 :
                (\A j \in i .. i + 3 : walk.turned[j] = walk.turned[i])
                   => walk.facings[i + 4] = walk.facings[i]
    /\ walk.phase = "looked" =>
          LET f == walk.facings[Len(walk.facings)]
          IN /\ walk.location = "InFront" => walk.look_direction = f
             /\ walk.location = "Left" => walk.look_direction = ClaimTurned(f, 3)
             /\ walk.location = "Right" => walk.look_direction = ClaimTurned(f, 1)
             /\ walk.location = "Behind" => walk.look_direction = ClaimTurned(f, 2)
             /\ ~ClaimOnEdge(walk.position)
                   => walk.cell = ClaimStep(walk.position, walk.look_direction)

\* C26 witness: a creature off the edge has made four clockwise Rotates from
\* North and then resolved Left
C26_Witness ==
    /\ walk.phase = "looked"
    /\ walk.facings[1] = "North"
    /\ walk.turned = <<"Clockwise", "Clockwise", "Clockwise", "Clockwise">>
    /\ walk.location = "Left"
    /\ walk.look_direction = "West"
    /\ ~ClaimOnEdge(walk.position)
    /\ walk.cell = Pos(walk.position.x - 1, walk.position.y)

\* C27: the Decide/Apply pairing is never broken: in every tick and for every
\* order in which the collected pairs are applied, when the pair (p, a) is
\* applied p is still occupied by the very creature that decided a (no earlier
\* application of the tick has removed, moved or replaced it: it is the
\* creature tick() found at p, with at most another brain copied into it), so
\* 'no creature at position' is unreachable, and every creature has at most
\* one action applied to it per tick (one pair per creature is collected and
\* each application consumes one pair).
C27_PairingNeverBroken ==
    [][ApplicationStep =>
          /\ \E pa \in actions :
                /\ actions' = actions \ {pa}
                /\ pa.position \in DOMAIN creatures
                /\ pa.position \in DOMAIN snapshot
                /\ creatures[pa.position] =
                      [snapshot[pa.position] EXCEPT !.brain = creatures[pa.position].brain]
                /\ last'.present
                /\ last'.position = pa.position /\ last'.action = pa.action
          /\ actions \subseteq decided
          /\ \A pa1 \in decided, pa2 \in decided :
                pa1.position = pa2.position => pa1 = pa2]_vars

\* C27 witness: two creatures decided, one of them a CopyBrain that replaced
\* the other's brain before the other's pair was applied, and both pairs have
\* been applied
C27_Witness ==
    /\ pc = "apply"
    /\ actions = {}
    /\ Cardinality(decided) = 2
    /\ \E pa \in decided : pa.action.type = "CopyDna"
    /\ last.present
    /\ last.before.brain # snapshot[last.position].brain

\* C28: every tick() call runs to completion: the Decide phase, the
\* application of each collected pair, the spawn attempts and the food
\* attempts all finish, so a tick() that has started always returns (and only
\* then can the next one start).
C28_TickRunsToCompletion == (pc \in {"decide", "apply", "spawn", "food"}) ~> (pc = "idle")

\* the three tiles there are
ClaimTiles == {Ground(FALSE), Ground(TRUE), Lava}

\* the reference colors the generated brain's ColorSensors carry
ClaimReferences ==
    {eval.net.neurons[i].color :
        i \in {j \in 1 .. Len(eval.net.neurons) : eval.net.neurons[j].itype = "Eye"}}

\* C29: none of the three tile colors (Ground without food (0,0,0), Ground
\* with food (0,255,0), Impassable (255,128,0)) strictly dominates any
\* reference color, so a ColorSensor is seeded 0 in every world and never
\* contributes a positive input to an acting neuron: its output is 0 when the
\* brain is seeded and still 0 when the action is computed.
C29_ColorSensorAlwaysZero ==
    /\ eval.phase = "start" =>
          \A tile \in ClaimTiles :
             /\ Tile_color(tile) = ClaimTileColor(tile)
             /\ \A reference \in ColorsExplored :
                   /\ ~Dominates(Tile_color(tile), reference)
                   /\ ~Color_ge(Tile_color(tile), reference)
    /\ eval.phase \in {"seeded", "decided"} =>
          /\ \A tile \in ClaimTiles, reference \in ClaimReferences :
                ~Color_ge(Tile_color(tile), reference)
          /\ \A i \in 1 .. Len(eval.net.neurons) :
                eval.net.neurons[i].itype = "Eye" => eval.neuron_states[i].output = 0

\* C29 witness: a seeded brain has a ColorSensor that looks at a Ground tile
\* with food, whose green channel is above that of the reference color, and
\* it is seeded 0
C29_Witness ==
    /\ eval.phase = "seeded"
    /\ \E i \in 1 .. Len(eval.net.neurons) :
          LET neuron == eval.net.neurons[i]
              cell == ClaimSensedCell(neuron.location)
          IN /\ neuron.itype = "Eye"
             /\ InGrid(cell)
             /\ eval.tiles[cell.y * width + cell.x] = Ground(TRUE)
             /\ neuron.color[2] < 255
             /\ neuron.color[1] = 0
             /\ eval.neuron_states[i].output = 0

\* C30: no operation of a tick changes a tile's kind or the grid's size: each
\* tile stays Ground or stays Impassable and the tile array keeps length
\* width x height; the only tile mutation is the food flag of a Ground tile,
\* set true only by a Food-regen attempt and set false only by the application
\* of an Eat that its creature could pay for, on that creature's own tile.
C30_TilesKeepKindAndSize ==
    [][/\ width' = width /\ height' = height
       /\ DOMAIN tiles = 0 .. width * height - 1
       /\ DOMAIN tiles' = DOMAIN tiles
       /\ \A i \in DOMAIN tiles :
             /\ tiles'[i].kind = tiles[i].kind
             /\ tiles[i].kind \in {"Ground", "Lava"}
             /\ tiles'[i].kind = "Lava" => ~tiles'[i].food_1
             /\ (~tiles[i].food_1 /\ tiles'[i].food_1) => FoodAttempt
             /\ (tiles[i].food_1 /\ ~tiles'[i].food_1) =>
                   \E pa \in actions :
                      /\ ApplicationStep
                      /\ actions' = actions \ {pa}
                      /\ pa.action.type = "Eat"
                      /\ pa.position \in DOMAIN creatures
                      /\ creatures[pa.position].energy >= ClaimCost(pa.action)
                      /\ i = pa.position.y * width + pa.position.x]_vars

\* C30 witness: after food has been regenerated in an earlier tick, a creature
\* has eaten the food of its own tile, gaining 50 for a cost of 2, next to a
\* tile that still has food
C30_Witness ==
    /\ pc = "apply"
    /\ current_tick >= 2
    /\ last.present
    /\ last.action.type = "Eat"
    /\ last.position \in DOMAIN creatures
    /\ creatures[last.position].energy = last.before.energy + 48
    /\ tiles[last.position.y * width + last.position.x] = Ground(FALSE)
    /\ \E i \in DOMAIN tiles : tiles[i] = Ground(TRUE)

\* C31: for every Brain NeuralNetwork::randomize produces, every connection's
\* source and destination are strictly less than the neuron count, no
\* candidate connection was skipped as self-referential, and at most 16
\* candidates were drawn, so calculate_action never indexes outside the
\* neuron-state array (which has one state per neuron) and the collected
\* connections never exceed the capacity of 16.
C31_ConnectionsWithinBounds ==
    /\ HasNet =>
          /\ \A j \in 1 .. Len(eval.net.connections) :
                /\ eval.net.connections[j].source \in 0 .. Len(eval.net.neurons) - 1
                /\ eval.net.connections[j].destination \in 0 .. Len(eval.net.neurons) - 1
          /\ eval.skipped = 0
          /\ eval.tries <= 16
          /\ Len(eval.net.connections) <= eval.tries
    /\ eval.phase \in {"seeded", "decided"} =>
          Len(eval.neuron_states) = Len(eval.net.neurons)

\* C31 witness: the connection loop of a Brain of 16 neurons drew the full 16
\* candidates, and calculate_action has run over the connections it kept
C31_Witness ==
    /\ eval.phase = "decided"
    /\ Len(eval.net.neurons) = 16
    /\ eval.tries = 16
    /\ Len(eval.net.connections) >= 2

====
